---- MODULE Spec2Model ----
(***************************************************************************)
(* State-machine model of the execution core of the runtime: the Event     *)
(* Loop (src/src/event_loop.cpp), the Module System (src/src/module.cpp)   *)
(* and the threads on which the Runtime runs script code                   *)
(* (src/src/runtime.cpp, src/src/main.cpp).                                *)
(***************************************************************************)
EXTENDS Integers, Sequences, FiniteSets, TLC

(***************************************************************************)
(* Bounds of the model.                                                    *)
(***************************************************************************)
\* number of callbacks (immediate or delayed) handed to the loop in one run
MaxTasks == 2
\* last instant of the steady clock
MaxTime == 1
\* largest delay_ms argument
MaxDelay == 1

\* threads other than the execution thread that call the blocking Stop()
Clients == {"c1", "c2"}

VARIABLES
    \* ---- EventLoop fields (include/event_loop.h) ----
    running_,        \* std::atomic<bool> running_
    task_queue_,     \* std::queue<std::function<void()>> task_queue_
    delayed_tasks_,  \* std::map<uint64_t, pair<time_point, function>> delayed_tasks_
    next_task_id_,   \* uint64_t next_task_id_
    \* ---- the execution thread (EventLoop::Run) ----
    pc,              \* position of the execution thread; "off" = thread_ not joinable
    tasks_to_run,    \* local vector of ProcessDelayedTasks
    task,            \* local 'task' of Run: the callback popped and being invoked
    \* ---- callers ----
    cpc,             \* position of every client thread inside Stop()
    aborted,         \* std::terminate was called
    \* ---- environment ----
    now,             \* std::chrono::steady_clock::now()
    \* ---- history ----
    nextTok,         \* next callback token (identity of a std::function)
    executed,        \* the callbacks in the order their invocation began
    raised,          \* tokens of the callbacks that threw
    stopSnap,        \* tokens queued or pending when running_ was last cleared
    \* ---- ModuleSystem fields (include/module.h) ----
    modules_,        \* unordered_map<string, shared_ptr<Module>> modules_
    native_modules_, \* unordered_map<string, Global<Object>> native_modules_
    \* ---- the script engine and the file system ----
    stack,           \* the Module::Load calls whose module body is being evaluated
    files,           \* what every source file currently holds
    nextObj,         \* next object v8::Object::New creates for a module
    ret,             \* what the Require call that has just returned returned
    \* ---- history ----
    called,          \* the ids Require was called with
    firstVal,        \* what the first Require call of every id returned
    evalCount,       \* how often the body of every id was invoked
    opened,          \* the file names the loader resolved and tried to open
    \* ---- history of the timer operations ----
    cancelled,       \* the callbacks of the timers CancelDelayedTask erased
    issued,          \* the ids ScheduleDelayedTask returned, in call order
    stopLeft,        \* tokens queued or pending when a Stop() returned
    lateCancels,     \* the ids CancelDelayedTask was called with after their
                     \* promotion and before their invocation
    \* ---- the heap of the setTimeout adapter (src/src/runtime.cpp) ----
    handles,         \* the callbacks whose persistent handles are allocated
    \* ---- the two mutexes (include/event_loop.h) ----
    queue_mutex_,          \* the thread that has locked queue_mutex_
    delayed_tasks_mutex_,  \* the thread that has locked delayed_tasks_mutex_
    inner,           \* the mutex a call made by the running task has locked
    \* ---- the threads of the Runtime (src/src/main.cpp, runtime.cpp) ----
    mainpc,          \* position of the main thread: ExecuteFile/ExecuteString
    requiring        \* the threads that are inside ModuleSystem::Require

loopVars == <<running_, task_queue_, delayed_tasks_, next_task_id_, pc,
              tasks_to_run, task, cpc, aborted, now, nextTok, executed,
              raised, stopSnap>>

modVars == <<modules_, native_modules_, stack, files, nextObj, ret, called,
             firstVal, evalCount, opened>>

\* the history of the timer operations
auxVars == <<cancelled, issued, stopLeft, lateCancels, handles>>

\* The operations of the Event Loop lock one mutex around their body.  For
\* each of them XLocked is the body, the statements executed with the mutex
\* locked, and X is lock, body and unlock taken as one step.
lockVars == <<queue_mutex_, delayed_tasks_mutex_, inner>>

\* the threads that run script code
threadVars == <<mainpc, requiring>>

vars == <<loopVars, modVars, auxVars, lockVars, threadVars>>

NoTask == [tok |-> 0, id |-> 0, due |-> 0]

\* a callback: tok is its identity; id/due are those of the DelayedTask it
\* came from (id 0: handed to ScheduleTask directly)
Callback(tok, id, due) == [tok |-> tok, id |-> id, due |-> due]

Range(s) == {s[i] : i \in DOMAIN s}

Toks(s) == {s[i].tok : i \in DOMAIN s}

(***************************************************************************)
(* Containers                                                              *)
(***************************************************************************)
\* a queue that puts the new element first
PushFront(q, t) == <<t>> \o q

\* std::queue::push (event_loop.cpp:45)
Push(q, t) == Append(q, t)

\* std::map::operator[] assignment (event_loop.cpp:54)
MapPut(m, k, v) == [x \in (DOMAIN m) \cup {k} |-> IF x = k THEN v ELSE m[x]]

\* an erase that also drops every smaller key
MapEraseUpTo(m, k) == [x \in {y \in DOMAIN m : y > k} |-> m[x]]

\* an erase that leaves the map as it is
MapEraseNothing(m, k) == m

\* std::map::erase(key) (event_loop.cpp:61)
MapErase(m, k) == [x \in (DOMAIN m) \ {k} |-> m[x]]

Min(S) == CHOOSE x \in S : \A y \in S : x <= y

Max(S) == CHOOSE x \in S : \A y \in S : x >= y

\* the keys from the largest to the smallest
RECURSIVE KeysDescending(_)
KeysDescending(S) ==
    IF S = {} THEN <<>>
    ELSE <<Max(S)>> \o KeysDescending(S \ {Max(S)})

\* keys of a std::map in iteration order (ascending key)
RECURSIVE KeysInOrder(_)
KeysInOrder(S) ==
    IF S = {} THEN <<>>
    ELSE <<Min(S)>> \o KeysInOrder(S \ {Min(S)})

\* the ids ProcessDelayedTasks erases at time t (event_loop.cpp:119)
DueIds(m, t) == {k \in DOMAIN m : m[k].due <= t}

\* the vector ProcessDelayedTasks collects: begin()..end() of the map, the
\* due entries in iteration order (event_loop.cpp:117-125)
Collect(m, t) ==
    LET ks == KeysInOrder(DueIds(m, t))
    IN  [i \in 1..Len(ks) |-> m[ks[i]].work]

\* a scan that forgets to erase what it collected
RemainingKeepsAll(m, t) == m

\* the map ProcessDelayedTasks leaves behind (event_loop.cpp:121)
Remaining(m, t) == [x \in (DOMAIN m) \ DueIds(m, t) |-> m[x]]

(***************************************************************************)
(* EventLoop::EventLoop (event_loop.cpp:6-8)                                *)
(***************************************************************************)
LoopInit ==
    /\ running_ = FALSE
    /\ task_queue_ = <<>>
    /\ delayed_tasks_ = <<>>
    /\ next_task_id_ = 1
    /\ pc = "off"
    /\ tasks_to_run = <<>>
    /\ task = NoTask
    /\ cpc = [c \in Clients |-> "idle"]
    /\ aborted = FALSE
    /\ now = 0
    /\ nextTok = 1
    /\ executed = <<>>
    /\ raised = {}
    /\ stopSnap = {}
    /\ cancelled = {}
    /\ issued = <<>>
    /\ stopLeft = {}
    /\ lateCancels = {}
    /\ handles = {}

(***************************************************************************)
(* EventLoop::Start (event_loop.cpp:16-23).  Assigning to a std::thread    *)
(* that is still joinable calls std::terminate.                            *)
(***************************************************************************)
Start ==
    /\ ~aborted
    /\ ~running_
    /\ running_' = TRUE
    /\ IF pc = "off"
       THEN /\ pc' = "while"
            /\ aborted' = FALSE
       ELSE /\ pc' = pc
            /\ aborted' = TRUE
    /\ stopSnap' = {}
    /\ UNCHANGED <<task_queue_, delayed_tasks_, next_task_id_, tasks_to_run,
                   task, cpc, now, nextTok, executed, raised,
                   modVars, auxVars, lockVars, threadVars>>

(***************************************************************************)
(* EventLoop::Start (event_loop.cpp:16-23) statement by statement, for a    *)
(* caller c that other callers may interleave with: Start takes no lock.    *)
(***************************************************************************)
\* line 17: if (running_) return;
StartCheck(c) ==
    /\ ~aborted
    /\ cpc[c] = "idle"
    /\ cpc' = [cpc EXCEPT ![c] = IF running_ THEN "idle" ELSE "start_set"]
    /\ UNCHANGED <<running_, task_queue_, delayed_tasks_, next_task_id_, pc,
                   tasks_to_run, task, aborted, now, nextTok, executed,
                   raised, stopSnap,
                   modVars, auxVars, lockVars, threadVars>>

\* line 21: running_ = true;
StartSet(c) ==
    /\ ~aborted
    /\ cpc[c] = "start_set"
    /\ running_' = TRUE
    /\ stopSnap' = {}
    /\ cpc' = [cpc EXCEPT ![c] = "start_spawn"]
    /\ UNCHANGED <<task_queue_, delayed_tasks_, next_task_id_, pc,
                   tasks_to_run, task, aborted, now, nextTok, executed,
                   raised,
                   modVars, auxVars, lockVars, threadVars>>

\* line 22: thread_ = std::thread(&EventLoop::Run, this): the new thread is
\* launched, then the move assignment terminates the program when thread_
\* is still joinable
StartSpawn(c) ==
    /\ ~aborted
    /\ cpc[c] = "start_spawn"
    /\ IF pc = "off"
       THEN /\ pc' = "while"
            /\ aborted' = FALSE
       ELSE /\ pc' = pc
            /\ aborted' = TRUE
    /\ cpc' = [cpc EXCEPT ![c] = "idle"]
    /\ UNCHANGED <<running_, task_queue_, delayed_tasks_, next_task_id_,
                   tasks_to_run, task, now, nextTok, executed, raised,
                   stopSnap,
                   modVars, auxVars, lockVars, threadVars>>

\* the threads inside EventLoop::Run: the one thread_ owns, while it has not
\* finished, and the one a Start launched on top of a joinable thread_
ExecutionThreads ==
    (IF pc \in {"off", "exited"} THEN 0 ELSE 1) + (IF aborted THEN 1 ELSE 0)

(***************************************************************************)
(* EventLoop::Stop (event_loop.cpp:26-40), one caller c                     *)
(***************************************************************************)
\* a Stop that signals and joins whatever the run state is
StopAlwaysSignals(running) == "stop_lock"

\* lines 27-29: where Stop goes on after it has read running_
StopEntry(running) == IF running THEN "stop_lock" ELSE "stop_done"

\* EventLoop::IsRunning (event_loop.cpp:65-67)
IsRunning == running_

\* line 27: if (!running_) return;
StopCheck(c) ==
    /\ ~aborted
    /\ cpc[c] = "idle"
    /\ cpc' = [cpc EXCEPT ![c] = StopEntry(running_)]
    /\ UNCHANGED <<running_, task_queue_, delayed_tasks_, next_task_id_, pc,
                   tasks_to_run, task, aborted, now, nextTok, executed,
                   raised, stopSnap,
                   modVars, auxVars, lockVars, threadVars>>

\* lines 31-35: under queue_mutex_, running_ = false; notify_one()
StopSignalLocked(c) ==
    /\ ~aborted
    /\ cpc[c] = "stop_lock"
    /\ running_' = FALSE
    /\ stopSnap' = Toks(task_queue_)
                     \cup {delayed_tasks_[k].work.tok : k \in DOMAIN delayed_tasks_}
    /\ cpc' = [cpc EXCEPT ![c] = "stop_joinable"]
    /\ UNCHANGED <<task_queue_, delayed_tasks_, next_task_id_, pc,
                   tasks_to_run, task, aborted, now, nextTok, executed, raised,
                   modVars, auxVars>>

StopSignal(c) ==
    StopSignalLocked(c) /\ UNCHANGED <<lockVars, threadVars>>

\* the callbacks the Task Queue and the Timer Store hold
Pending ==
    Toks(task_queue_)
        \cup {delayed_tasks_[k].work.tok : k \in DOMAIN delayed_tasks_}

\* line 37: if (thread_.joinable())
StopJoinable(c) ==
    /\ ~aborted
    /\ cpc[c] = "stop_joinable"
    /\ cpc' = [cpc EXCEPT ![c] = IF pc # "off" THEN "stop_join" ELSE "stop_done"]
    /\ UNCHANGED <<running_, task_queue_, delayed_tasks_, next_task_id_, pc,
                   tasks_to_run, task, aborted, now, nextTok, executed,
                   raised, stopSnap,
                   modVars, auxVars, lockVars, threadVars>>

\* line 38: thread_.join() returns once the execution thread has finished
Join(c) ==
    /\ ~aborted
    /\ cpc[c] = "stop_join"
    /\ pc \in {"exited", "off"}
    /\ pc' = "off"
    /\ cpc' = [cpc EXCEPT ![c] = "stop_done"]
    /\ UNCHANGED <<running_, task_queue_, delayed_tasks_, next_task_id_,
                   tasks_to_run, task, aborted, now, nextTok, executed,
                   raised, stopSnap,
                   modVars, cancelled, issued, lateCancels, handles,
                   lockVars, threadVars>>

StopJoin(c) == Join(c) /\ UNCHANGED stopLeft

\* the same step, with what the Task Queue and the Timer Store hold at this
\* moment written down
StopJoinObserved(c) == Join(c) /\ stopLeft' = stopLeft \cup Pending

\* the caller goes on after Stop() returned
StopReturn(c) ==
    /\ ~aborted
    /\ cpc[c] = "stop_done"
    /\ cpc' = [cpc EXCEPT ![c] = "idle"]
    /\ UNCHANGED <<running_, task_queue_, delayed_tasks_, next_task_id_, pc,
                   tasks_to_run, task, aborted, now, nextTok, executed,
                   raised, stopSnap,
                   modVars, auxVars, lockVars, threadVars>>

(***************************************************************************)
(* EventLoop::ScheduleTask (event_loop.cpp:43-47), from any thread          *)
(***************************************************************************)
ScheduleTaskLocked ==
    /\ ~aborted
    /\ nextTok <= MaxTasks
    /\ task_queue_' = Push(task_queue_, Callback(nextTok, 0, 0))
    /\ nextTok' = nextTok + 1
    /\ UNCHANGED <<running_, delayed_tasks_, next_task_id_, pc, tasks_to_run,
                   task, cpc, aborted, now, executed, raised, stopSnap,
                   modVars, auxVars>>

ScheduleTask ==
    ScheduleTaskLocked /\ UNCHANGED <<lockVars, threadVars>>

(***************************************************************************)
(* The integer types of the timer path.  int64_t and uint64_t have         *)
(* WordBits bits here; the clock counts PeriodsPerMs periods in a          *)
(* millisecond (std::chrono::steady_clock counts nanoseconds).             *)
(***************************************************************************)
WordBits == 4

PeriodsPerMs == 2

Int64Min == -(2^(WordBits - 1))

Int64Max == 2^(WordBits - 1) - 1

\* v8::Value::IntegerValue (runtime.cpp:30): the script number as an
\* int64_t; numbers beyond its range give its smallest or largest value
IntegerValue(n) ==
    IF n < Int64Min THEN Int64Min
    ELSE IF n > Int64Max THEN Int64Max
    ELSE n

\* runtime.cpp:30: the int64_t initialises a uint64_t
ToUint64(i) == i % (2^WordBits)

\* std::chrono::milliseconds(delay_ms) (event_loop.cpp:53): the count of a
\* duration is a signed 64-bit integer
Milliseconds(delay_ms) ==
    IF delay_ms > Int64Max THEN delay_ms - 2^WordBits ELSE delay_ms

\* a value an int64_t can hold
Representable(x) == x >= Int64Min /\ x <= Int64Max

\* the instants a time_point computed with overflow can denote: before the
\* clock's start, any instant the clock reaches, or one it never reaches
TimePoints == (0 - 1)..(MaxTime + 1)

\* now() + milliseconds(delay_ms) (event_loop.cpp:53).  The sum is computed
\* in periods of the clock: the milliseconds are multiplied by PeriodsPerMs
\* and added to the count of now().  Signed overflow in either operation is
\* undefined: the time_point may then denote any instant.
ExecutionTimes(t, delay_ms) ==
    LET ms == Milliseconds(delay_ms)
    IN  IF /\ Representable(ms * PeriodsPerMs)
           /\ Representable(t * PeriodsPerMs + ms * PeriodsPerMs)
        THEN {t + ms}
        ELSE TimePoints

\* ids that count from zero
IdBelowCounter(n) == n - 1

\* line 52: the value of next_task_id_++ is the counter before the increment
IdIssued(n) == n

\* a counter that is read but not advanced
PostIncrementStuck(n) == n

\* line 52: next_task_id_++ leaves the counter one higher
PostIncrement(n) == n + 1

(***************************************************************************)
(* EventLoop::ScheduleDelayedTask (event_loop.cpp:50-56): the whole body   *)
(* runs under delayed_tasks_mutex_, whoever calls it                       *)
(***************************************************************************)
StoreDelayedTask(delay_ms) ==
    /\ ~aborted
    /\ nextTok <= MaxTasks
    /\ \E execution_time \in ExecutionTimes(now, delay_ms) :
          LET task_id == IdIssued(next_task_id_)
          IN  /\ next_task_id_' = PostIncrement(next_task_id_)
              /\ delayed_tasks_' =
                   MapPut(delayed_tasks_, task_id,
                          [due |-> execution_time,
                           work |-> Callback(nextTok, task_id,
                                             execution_time)])
    /\ nextTok' = nextTok + 1
    /\ issued' = Append(issued, IdIssued(next_task_id_))
    /\ UNCHANGED <<running_, task_queue_, pc, tasks_to_run, task, cpc,
                   aborted, now, executed, raised, stopSnap,
                   modVars, cancelled, stopLeft, lateCancels>>

\* the callback is a std::function that owns nothing on the heap
ScheduleDelayedTaskLocked(delay_ms) ==
    StoreDelayedTask(delay_ms) /\ UNCHANGED handles

ScheduleDelayedTask(delay_ms) ==
    /\ ScheduleDelayedTaskLocked(delay_ms)
    /\ UNCHANGED <<lockVars, threadVars>>

(***************************************************************************)
(* EventLoop::CancelDelayedTask (event_loop.cpp:59-62)                      *)
(***************************************************************************)
EraseDelayedTask(task_id) ==
    /\ ~aborted
    /\ delayed_tasks_' = MapErase(delayed_tasks_, task_id)
    /\ cancelled' = IF task_id \in DOMAIN delayed_tasks_
                    THEN cancelled \cup {delayed_tasks_[task_id].work}
                    ELSE cancelled
    /\ UNCHANGED <<running_, task_queue_, next_task_id_, pc, tasks_to_run,
                   task, cpc, aborted, now, nextTok, executed, raised,
                   stopSnap,
                   modVars, issued, stopLeft, handles>>

CancelDelayedTaskLocked(task_id) ==
    EraseDelayedTask(task_id) /\ UNCHANGED lateCancels

CancelDelayedTask(task_id) ==
    /\ CancelDelayedTaskLocked(task_id)
    /\ UNCHANGED <<lockVars, threadVars>>

\* delayed task task_id has left the Timer Store and has not been popped
InFlight(task_id) ==
    \/ \E i \in DOMAIN tasks_to_run : tasks_to_run[i].id = task_id
    \/ \E i \in DOMAIN task_queue_ : task_queue_[i].id = task_id

\* the same call, with the ids written down that it was made with while
\* their task was between promotion and pop
CancelDelayedTaskObserved(task_id) ==
    /\ EraseDelayedTask(task_id)
    /\ lateCancels' = IF task_id > 0 /\ InFlight(task_id)
                      THEN lateCancels \cup {task_id}
                      ELSE lateCancels
    /\ UNCHANGED <<lockVars, threadVars>>

(***************************************************************************)
(* EventLoop::Run (event_loop.cpp:70-107), the execution thread             *)
(***************************************************************************)
\* line 71: while (running_)
RunWhile ==
    /\ ~aborted
    /\ pc = "while"
    /\ pc' = IF running_ THEN "pdt" ELSE "exited"
    /\ UNCHANGED <<running_, task_queue_, delayed_tasks_, next_task_id_,
                   tasks_to_run, task, cpc, aborted, now, nextTok, executed,
                   raised, stopSnap,
                   modVars, auxVars, lockVars, threadVars>>

\* ProcessDelayedTasks, lines 113-126: the scan under delayed_tasks_mutex_
ProcessDelayedTasksScanLocked ==
    /\ ~aborted
    /\ pc = "pdt"
    /\ tasks_to_run' = Collect(delayed_tasks_, now)
    /\ delayed_tasks_' = Remaining(delayed_tasks_, now)
    /\ pc' = IF tasks_to_run' = <<>> THEN "lock" ELSE "push"
    /\ UNCHANGED <<running_, task_queue_, next_task_id_, task, cpc, aborted,
                   now, nextTok, executed, raised, stopSnap,
                   modVars, auxVars>>

ProcessDelayedTasksScan ==
    ProcessDelayedTasksScanLocked /\ UNCHANGED <<lockVars, threadVars>>

\* ProcessDelayedTasks, lines 129-131: one ScheduleTask(task) of the for loop
ProcessDelayedTasksPushLocked ==
    /\ ~aborted
    /\ pc = "push"
    /\ task_queue_' = Push(task_queue_, Head(tasks_to_run))
    /\ tasks_to_run' = Tail(tasks_to_run)
    /\ pc' = IF tasks_to_run' = <<>> THEN "lock" ELSE "push"
    /\ UNCHANGED <<running_, delayed_tasks_, next_task_id_, task, cpc,
                   aborted, now, nextTok, executed, raised, stopSnap,
                   modVars, auxVars>>

ProcessDelayedTasksPush ==
    ProcessDelayedTasksPushLocked /\ UNCHANGED <<lockVars, threadVars>>

\* lines 94-95 : task = task_queue_.front(); task_queue_.pop();
Front(q) == Head(q)

\* a pop that empties the queue
PopAll(q) == <<>>

Pop(q) == Tail(q)

\* a wait that only a notification with a true predicate ends
WaitUntilNotified(q, running) == q # <<>> \/ ~running

\* lines 81-83: wait_for(lock, 10ms, predicate) returns when the predicate
\* has become true, and after 10 milliseconds whatever the predicate is
WaitFor(q, running) == TRUE

\* lines 78-96 with a non-empty queue: the task is popped whatever running_ is
RunLockLocked ==
    /\ ~aborted
    /\ pc = "lock"
    /\ IF task_queue_ = <<>>
       THEN \* line 81: wait_for releases queue_mutex_
            /\ pc' = "wait"
            /\ UNCHANGED <<task_queue_, task, executed>>
       ELSE /\ task' = Front(task_queue_)
            /\ task_queue_' = Pop(task_queue_)
            /\ executed' = Append(executed, task')
            /\ pc' = "run"
    /\ UNCHANGED <<running_, delayed_tasks_, next_task_id_, tasks_to_run,
                   cpc, aborted, now, nextTok, raised, stopSnap,
                   modVars, auxVars>>

RunLock ==
    RunLockLocked /\ UNCHANGED <<lockVars, threadVars>>

\* a wake that goes on without looking at running_
AfterWakeNoBreak(q, running) == IF q = <<>> THEN "while" ELSE "run"

\* lines 85-95: where the execution thread goes after wait_for returned:
\* break when running_ is false, continue when the queue is empty, and the
\* pop otherwise
AfterWake(q, running) ==
    IF ~running THEN "exited"
    ELSE IF q = <<>> THEN "while"
    ELSE "run"

\* lines 81-95: wait_for returns (predicate true, or the 10ms timeout)
RunWakeLocked ==
    /\ ~aborted
    /\ pc = "wait"
    /\ WaitFor(task_queue_, running_)
    /\ pc' = AfterWake(task_queue_, running_)
    /\ IF pc' = "run"
       THEN /\ task' = Front(task_queue_)
            /\ task_queue_' = Pop(task_queue_)
            /\ executed' = Append(executed, task')
       ELSE UNCHANGED <<task_queue_, task, executed>>
    /\ UNCHANGED <<running_, delayed_tasks_, next_task_id_, tasks_to_run,
                   cpc, aborted, now, nextTok, raised, stopSnap,
                   modVars, auxVars>>

RunWake ==
    RunWakeLocked /\ UNCHANGED <<lockVars, threadVars>>

\* an invocation without the try/catch: the exception leaves Run
AfterInvokeUncaught(threw) == IF threw THEN "exited" ELSE "while"

\* a loop that pops the next task right after an invocation, without going
\* back to the head of the loop
AfterInvokeDrain(threw) == "lock"

\* lines 99-105: where the execution thread goes after task() returned
\* (threw = FALSE) or threw an exception (threw = TRUE)
AfterInvoke(threw) == "while"

\* the setTimeout callback (runtime.cpp:42-64): when callback->Call has
\* returned (line 51), lines 59-63 reset and delete the two persistent
\* handles
ReleaseHandles(h, tok, threw) == IF threw THEN h ELSE h \ {tok}

\* lines 98-106: task() runs to its end
RunTask(threw) ==
    /\ ~aborted
    /\ pc = "run"
    /\ pc' = AfterInvoke(threw)
    /\ raised' = IF threw THEN raised \cup {task.tok} ELSE raised
    /\ handles' = ReleaseHandles(handles, task.tok, threw)
    /\ task' = NoTask
    /\ UNCHANGED <<running_, task_queue_, delayed_tasks_, next_task_id_,
                   tasks_to_run, cpc, aborted, now, nextTok, executed,
                   stopSnap,
                   modVars, cancelled, issued, stopLeft, lateCancels,
                   lockVars, threadVars>>

(***************************************************************************)
(* EventLoop::Stop (event_loop.cpp:26-40) called by the task that the      *)
(* execution thread is invoking                                            *)
(***************************************************************************)
\* line 27 with running_ true; with running_ false the call returns at once
\* and changes nothing
TaskStopCheck ==
    /\ ~aborted
    /\ pc = "run"
    /\ running_
    /\ pc' = "task_stop_lock"
    /\ UNCHANGED <<running_, task_queue_, delayed_tasks_, next_task_id_,
                   tasks_to_run, task, cpc, aborted, now, nextTok, executed,
                   raised, stopSnap,
                   modVars, auxVars, lockVars, threadVars>>

\* lines 31-35: the execution thread does not hold queue_mutex_ while it
\* invokes a task, so the lock_guard is acquired
TaskStopSignal ==
    /\ ~aborted
    /\ pc = "task_stop_lock"
    /\ running_' = FALSE
    /\ stopSnap' = Pending
    /\ pc' = "task_stop_join"
    /\ UNCHANGED <<task_queue_, delayed_tasks_, next_task_id_,
                   tasks_to_run, task, cpc, aborted, now, nextTok, executed,
                   raised,
                   modVars, auxVars, lockVars, threadVars>>

\* lines 37-38: thread_ is joinable, and join() called on the thread that
\* thread_ denotes throws std::system_error
\* (resource_deadlock_would_occur) and leaves thread_ joinable
TaskStopJoin ==
    /\ ~aborted
    /\ pc = "task_stop_join"
    /\ pc' = "task_stop_threw"
    /\ UNCHANGED <<running_, task_queue_, delayed_tasks_, next_task_id_,
                   tasks_to_run, task, cpc, aborted, now, nextTok, executed,
                   raised, stopSnap,
                   modVars, auxVars, lockVars, threadVars>>

\* the exception leaves Stop(): the task catches it and goes on, or it
\* leaves the task and is caught at lines 101-105 of Run
TaskStopThrows(caught) ==
    /\ ~aborted
    /\ pc = "task_stop_threw"
    /\ IF caught
       THEN /\ pc' = "run"
            /\ UNCHANGED <<raised, task>>
       ELSE /\ pc' = AfterInvoke(TRUE)
            /\ raised' = raised \cup {task.tok}
            /\ task' = NoTask
    /\ UNCHANGED <<running_, task_queue_, delayed_tasks_, next_task_id_,
                   tasks_to_run, cpc, aborted, now, nextTok, executed,
                   stopSnap,
                   modVars, auxVars, lockVars, threadVars>>

(***************************************************************************)
(* EventLoop::~EventLoop (event_loop.cpp:11-13) by caller c, on a loop     *)
(* that is not running: Stop() returns at line 28, then the members are    *)
(* destroyed; the destructor of a std::thread that is joinable calls       *)
(* std::terminate.  (Destroying a running loop is a Stop() and then this.) *)
(***************************************************************************)
Destroy(c) ==
    /\ ~aborted
    /\ cpc[c] = "idle"
    /\ ~running_
    /\ cpc' = [cpc EXCEPT ![c] = "destroyed"]
    /\ aborted' = (pc # "off")
    /\ UNCHANGED <<running_, task_queue_, delayed_tasks_, next_task_id_, pc,
                   tasks_to_run, task, now, nextTok, executed, raised,
                   stopSnap,
                   modVars, auxVars, lockVars, threadVars>>

(***************************************************************************)
(* std::chrono::steady_clock advances                                      *)
(***************************************************************************)
Tick ==
    /\ ~aborted
    /\ now < MaxTime
    /\ now' = now + 1
    /\ UNCHANGED <<running_, task_queue_, delayed_tasks_, next_task_id_, pc,
                   tasks_to_run, task, cpc, aborted, nextTok, executed,
                   raised, stopSnap,
                   modVars, auxVars, lockVars, threadVars>>

(***************************************************************************)
(* The Module System (src/src/module.cpp)                                  *)
(***************************************************************************)
\* number of objects the engine creates for module exports in one run
MaxObjects == 3
\* depth of nested require() calls the engine's stack allows
MaxDepth == 2
\* evalCount stops counting here
EvalCap == 2

\* the identifiers scripts and the host pass to Require
ModuleIds == {"a", "b"}

\* ModuleSystem::ResolveModuleId (module.cpp:200-204)
ResolveModuleId(module_id) == module_id \o ".js"

FileNames == {ResolveModuleId(id) : id \in ModuleIds}

\* two identifiers that spell the path of one source file
AliasIds == {"a", "./a"}

\* identifiers that differ in how they spell a path: with a leading "./",
\* and with the extension already present
PathIds == AliasIds \cup {"a.js"}

AllIds == ModuleIds \cup PathIds

\* the file names Require can hand to std::ifstream
Names == {ResolveModuleId(id) : id \in AllIds}

\* std::ifstream file(filename_) (module.cpp:25): the file a name denotes;
\* "./x" and "x" are one file of the working directory
FileOf(filename) ==
    IF \E g \in Names : filename = "./" \o g
    THEN CHOOSE g \in Names : filename = "./" \o g
    ELSE filename

\* the files of the working directory
Files == {FileOf(f) : f \in Names}

\* what a source file can hold: nothing readable, text that does not
\* compile, a body that throws at its end, a body that runs to its end
\* (adding properties to the exports object it was given)
FileKinds == {"missing", "syntax", "throws", "ok"}

\* the same, and a body that assigns a new object to module.exports and
\* runs to its end
SourceKinds == FileKinds \cup {"replaces"}

\* a script-side object created by v8::Object::New in Module::Load
ExportsObject(n) == [kind |-> "exports", n |-> n]

\* the object the body of evaluation n assigns to module.exports
ReplacementObject(n) == [kind |-> "replacement", n |-> n]

\* the objects host adapters register
NativeObjects == {[kind |-> "native", n |-> 1], [kind |-> "native", n |-> 2]}

\* the fresh empty object Require returns when it could not load
\* (module.cpp:167, 177); its identity is not tracked
EmptyObject == [kind |-> "empty", n |-> 0]

NoVal == [kind |-> "none", n |-> 0]

NoRet == [id |-> "", val |-> NoVal]

Returned(id, val) == [id |-> id, val |-> val]

\* a cache with one entry for every source file
CacheKeyByFile(module_id) == FileOf(ResolveModuleId(module_id))

\* ModuleSystem::Require, lines 158 and 182: modules_ is searched and
\* written with the identifier as it was passed
CacheKey(module_id) == module_id

\* a Require that looks into the script cache before the native registry
RequirePathCacheFirst(module_id) ==
    IF CacheKey(module_id) \in DOMAIN modules_ THEN "cached"
    ELSE IF module_id \in DOMAIN native_modules_ THEN "native"
    ELSE "load"

\* a Require that trusts a cache entry only while the source file of the
\* identifier can still be loaded
RequirePathIfLoadable(module_id) ==
    IF module_id \in DOMAIN native_modules_ THEN "native"
    ELSE IF /\ CacheKey(module_id) \in DOMAIN modules_
            /\ files[FileOf(ResolveModuleId(module_id))]
                   \notin {"missing", "syntax"}
         THEN "cached"
    ELSE "load"

\* ModuleSystem::Require, lines 151-161: which branch answers the call
RequirePath(module_id) ==
    IF module_id \in DOMAIN native_modules_ THEN "native"
    ELSE IF CacheKey(module_id) \in DOMAIN modules_ THEN "cached"
    ELSE "load"

\* a Require that resolves and opens the source file on every branch
OpensAlways(path, filename) == {filename}

\* ModuleSystem::Require, lines 164 and 171, and Module::Load, line 24: the
\* file a call resolves and opens; only the loading branch gets there
Opens(path, filename) == IF path = "load" THEN {filename} ELSE {}

\* Module::GetExports (module.cpp:128-130)
GetExports(module) == module.exports

\* Module::Load, lines 24-61: can the file be opened and compiled?
Loadable(src) == src \notin {"missing", "syntax"}

\* Module::Load, lines 79 and 95: what the exports property of the module
\* object refers to when the body of load m has run to its end
BodyLeaves(m) ==
    IF m.src = "replaces" THEN ReplacementObject(m.exports.n) ELSE m.exports

\* a Load that stores the exports object it passed to the body
ReadBackArgument(m) == m.exports

\* Module::Load, lines 101-109: exports_ is set from module->Get("exports")
ReadBack(m) == BodyLeaves(m)

\* Module::Load, lines 95-99 and 114: what Load returns once the body of
\* load m has ended (true: it ran to its end; false: it threw)
LoadResult(m) == m.src # "throws"

\* Module::Module (line 10) and Module::Load, lines 108-112: the Module when
\* Load returns; loaded_ is false and exports_ empty unless Load got to its
\* last lines
ModuleAfterLoad(m) ==
    [filename |-> m.filename,
     exports |-> IF LoadResult(m) THEN ReadBack(m) ELSE NoVal,
     loaded |-> LoadResult(m)]

\* a Require that puts the Module into the cache whatever Load returned
StoreAlways(ok, modules, module_id, module) ==
    MapPut(modules, module_id, module)

\* ModuleSystem::Require, lines 175-182: return before the insertion when
\* Load returned false
Store(ok, modules, module_id, module) ==
    IF ok THEN MapPut(modules, module_id, module) ELSE modules

\* ModuleSystem::ModuleSystem (module.cpp:133-135)
ModInit ==
    /\ modules_ = <<>>
    /\ native_modules_ = <<>>
    /\ stack = <<>>
    /\ files = [f \in Files |-> "missing"]
    /\ nextObj = 1
    /\ ret = NoRet
    /\ called = {}
    /\ firstVal = [id \in AllIds |-> NoVal]
    /\ evalCount = [id \in AllIds |-> 0]
    /\ opened = {}

\* the bookkeeping of a Require(module_id) call that returns val at once
ReturnsAtOnce(module_id, val) ==
    /\ ret' = Returned(module_id, val)
    /\ called' = called \cup {module_id}
    /\ firstVal' = IF module_id \in called THEN firstVal
                   ELSE [firstVal EXCEPT ![module_id] = val]
    /\ UNCHANGED <<modules_, native_modules_, stack, files, nextObj,
                   evalCount>>

(***************************************************************************)
(* ModuleSystem::Require (module.cpp:148-186) is called, by the host or a   *)
(* top-level script (empty stack) or by the module body being evaluated    *)
(* (the native Require of module.cpp:207-232).  It returns at once, or     *)
(* reaches line 95 of Module::Load, where the module body starts to run.   *)
(***************************************************************************)
Require(module_id) ==
    /\ opened' = opened \cup Opens(RequirePath(module_id),
                                   ResolveModuleId(module_id))
    /\ LET path == RequirePath(module_id)
           filename == ResolveModuleId(module_id)
       IN  IF path = "native"
           THEN ReturnsAtOnce(module_id, native_modules_[module_id])
           ELSE IF path = "cached"
           THEN ReturnsAtOnce(module_id,
                              GetExports(modules_[CacheKey(module_id)]))
           ELSE IF ~Loadable(files[FileOf(filename)])
           THEN ReturnsAtOnce(module_id, EmptyObject)
           ELSE /\ Len(stack) < MaxDepth
                /\ nextObj <= MaxObjects
                /\ stack' = Append(stack,
                                   [id |-> module_id,
                                    filename |-> filename,
                                    src |-> files[FileOf(filename)],
                                    exports |-> ExportsObject(nextObj),
                                    first |-> module_id \notin called])
                /\ nextObj' = nextObj + 1
                /\ evalCount' =
                     [evalCount EXCEPT ![module_id] =
                        IF @ < EvalCap THEN @ + 1 ELSE @]
                /\ called' = called \cup {module_id}
                /\ ret' = NoRet
                /\ UNCHANGED <<modules_, native_modules_, files, firstVal>>
    /\ UNCHANGED <<loopVars, auxVars, lockVars, threadVars>>

(***************************************************************************)
(* The module body on top of the stack ends: Module::Load, lines 95-114,   *)
(* and ModuleSystem::Require, lines 175-185.                               *)
(***************************************************************************)
LoadReturns ==
    /\ stack # <<>>
    /\ LET m == stack[Len(stack)]
           module == ModuleAfterLoad(m)
           val == IF LoadResult(m) THEN GetExports(module) ELSE EmptyObject
       IN  /\ modules_' =
                Store(LoadResult(m), modules_, CacheKey(m.id), module)
           /\ ret' = Returned(m.id, val)
           /\ firstVal' = IF m.first THEN [firstVal EXCEPT ![m.id] = val]
                          ELSE firstVal
    /\ stack' = SubSeq(stack, 1, Len(stack) - 1)
    /\ UNCHANGED <<native_modules_, files, nextObj, called, evalCount,
                   opened>>
    /\ UNCHANGED <<loopVars, auxVars, lockVars, threadVars>>

\* a registration that keeps the entry an identifier already has
EmplaceOnly(m, k, v) == IF k \in DOMAIN m THEN m ELSE MapPut(m, k, v)

\* native_modules_[module_id].Reset(isolate, exports) (module.cpp:191):
\* operator[] finds the entry or inserts an empty one, Reset makes it refer
\* to exports
Reset(m, k, v) == MapPut(m, k, v)

(***************************************************************************)
(* ModuleSystem::RegisterNativeModule (module.cpp:189-192), called by the   *)
(* host while no module body runs                                          *)
(***************************************************************************)
RegisterNativeModule(module_id, exports) ==
    /\ stack = <<>>
    /\ native_modules_' = Reset(native_modules_, module_id, exports)
    /\ ret' = NoRet
    /\ UNCHANGED <<modules_, stack, files, nextObj, called, firstVal,
                   evalCount, opened>>
    /\ UNCHANGED <<loopVars, auxVars, lockVars, threadVars>>

(***************************************************************************)
(* A source file is written, replaced or removed (by a script through the  *)
(* fs module, or by another process)                                       *)
(***************************************************************************)
WriteFile(f, kind) ==
    /\ files[f] # kind
    /\ files' = [files EXCEPT ![f] = kind]
    /\ ret' = NoRet
    /\ UNCHANGED <<modules_, native_modules_, stack, nextObj, called,
                   firstVal, evalCount, opened>>
    /\ UNCHANGED <<loopVars, auxVars, lockVars, threadVars>>

\* no mutex is locked
Free == "free"

LockInit ==
    /\ queue_mutex_ = Free
    /\ delayed_tasks_mutex_ = Free
    /\ inner = "none"

\* Runtime::Runtime has not run a script yet; no Require call is in progress
ThreadInit ==
    /\ mainpc = "ready"
    /\ requiring = {}

Init == LoopInit /\ ModInit /\ LockInit /\ ThreadInit

\* one caller inside Stop()
Stop(c) ==
    \/ StopCheck(c)
    \/ StopSignal(c)
    \/ StopJoinable(c)
    \/ StopJoin(c)
    \/ StopReturn(c)

\* the execution thread, the clock, and the non-blocking operations, which
\* any thread (a running task included) may call at any time
Operate ==
    \/ ScheduleTask
    \/ \E d \in 0..MaxDelay : ScheduleDelayedTask(d)
    \/ \E i \in 0..(MaxTasks + 1) : CancelDelayedTask(i)
    \/ RunWhile
    \/ ProcessDelayedTasksScan
    \/ ProcessDelayedTasksPush
    \/ RunLock
    \/ RunWake
    \/ \E threw \in BOOLEAN : RunTask(threw)
    \/ Tick

LoopStep == Start \/ Operate

\* the Event Loop with one thread that calls Stop()
Next == LoopStep \/ Stop("c1")

Spec == Init /\ [][Next]_vars

\* the Event Loop with one thread that calls Stop(), and a record of what
\* every completed Stop() left in the Task Queue and the Timer Store
RestartNext ==
    \/ LoopStep
    \/ StopCheck("c1")
    \/ StopSignal("c1")
    \/ StopJoinable("c1")
    \/ StopJoinObserved("c1")
    \/ StopReturn("c1")

RestartSpec == Init /\ [][RestartNext]_vars

\* one step of the execution thread
Run ==
    \/ RunWhile
    \/ ProcessDelayedTasksScan
    \/ ProcessDelayedTasksPush
    \/ RunLock
    \/ RunWake
    \/ \E threw \in BOOLEAN : RunTask(threw)

\* the Event Loop that is started and never stopped, with timers that are
\* never cancelled and fall due while the clock of the model still runs
StartedNext ==
    \/ Start
    \/ ScheduleTask
    \/ \E d \in 0..MaxDelay : now + d <= MaxTime /\ ScheduleDelayedTask(d)
    \/ Run
    \/ Tick

\* the loop is started at some time, the execution thread is scheduled
\* again and again, every invoked task returns, and the clock advances
StartedSpec ==
    /\ Init
    /\ [][StartedNext]_vars
    /\ WF_vars(Start)
    /\ WF_vars(Run)
    /\ WF_vars(Tick)

\* the Event Loop that is started and never stopped, with timers that any
\* thread cancels at any time
CancellingNext ==
    \/ Start
    \/ ScheduleTask
    \/ \E d \in 0..MaxDelay : ScheduleDelayedTask(d)
    \/ \E i \in 0..(MaxTasks + 1) : CancelDelayedTaskObserved(i)
    \/ Run
    \/ Tick

\* the execution thread is scheduled again and again, its wait_for returns
\* and every invoked task returns
CancellingSpec ==
    /\ Init
    /\ [][CancellingNext]_vars
    /\ WF_vars(Run)

\* Start() called by the thread that also calls Stop() (the Runtime starts
\* the loop in its constructor and stops it in its destructor,
\* runtime.cpp:197-207), so never while a Stop() is in progress
ControllerStart(c) == cpc[c] = "idle" /\ Start

\* the steps of a Stop() that is past its check of running_
StopProceeds(c) ==
    \/ StopSignal(c)
    \/ StopJoinable(c)
    \/ StopJoin(c)
    \/ StopReturn(c)

\* the Event Loop with one controlling thread that starts and stops it,
\* while any thread schedules work
StoppingNext ==
    \/ ControllerStart("c1")
    \/ ScheduleTask
    \/ \E d \in 0..MaxDelay : ScheduleDelayedTask(d)
    \/ Run
    \/ Tick
    \/ StopCheck("c1")
    \/ StopProceeds("c1")

\* the execution thread is scheduled again and again, its wait_for returns,
\* every invoked task returns, and the thread inside Stop() is scheduled
StoppingSpec ==
    /\ Init
    /\ [][StoppingNext]_vars
    /\ WF_vars(Run)
    /\ WF_vars(StopProceeds("c1"))

(***************************************************************************)
(* The Event Loop with locking and unlocking as steps of their own.  The   *)
(* threads are the execution thread and one client; the task being        *)
(* invoked makes its calls on the execution thread.                        *)
(***************************************************************************)
Callers == {"exec", "c1"}

\* a promotion pass that keeps delayed_tasks_mutex_ until it returns
ScanKeepsGuard == "exec"

\* ProcessDelayedTasks, line 126: the block of the lock_guard ends before
\* the for loop of line 129
ScanRelease == Free

\* a Run that invokes the task inside the block of its unique_lock
PopKeepsGuard(next_pc) == IF next_pc = "run" THEN "exec" ELSE Free

\* Run, lines 81, 86, 90 and 96: wait_for unlocks while it waits, and break,
\* continue and the end of the block destroy the unique_lock
PopRelease(next_pc) == Free

\* std::lock_guard / std::unique_lock on queue_mutex_ (lines 31, 44, 78; the
\* wait_for of line 81 locks again before it returns): thread t blocks
\* until the mutex is free
LockQueue(t) ==
    /\ ~aborted
    /\ queue_mutex_ = Free
    /\ IF t = "exec"
       THEN \/ pc \in {"push", "lock", "wait"} /\ inner' = inner
            \/ pc = "run" /\ inner = "none" /\ inner' = "queue"
       ELSE /\ cpc[t] \in {"idle", "stop_lock"}
            /\ delayed_tasks_mutex_ # t
            /\ inner' = inner
    /\ queue_mutex_' = t
    /\ UNCHANGED <<delayed_tasks_mutex_, loopVars, modVars, auxVars,
                   threadVars>>

\* std::lock_guard on delayed_tasks_mutex_ (lines 51, 60, 114)
LockTimers(t) ==
    /\ ~aborted
    /\ delayed_tasks_mutex_ = Free
    /\ IF t = "exec"
       THEN \/ pc = "pdt" /\ inner' = inner
            \/ pc = "run" /\ inner = "none" /\ inner' = "timers"
       ELSE /\ cpc[t] = "idle"
            /\ queue_mutex_ # t
            /\ inner' = inner
    /\ delayed_tasks_mutex_' = t
    /\ UNCHANGED <<queue_mutex_, loopVars, modVars, auxVars, threadVars>>

\* thread t is in the body of a call it made itself (a client, or the task
\* being invoked) and holds the mutex named which
InCall(t, which) ==
    IF t = "exec" THEN pc = "run" /\ inner = which
    ELSE cpc[t] = "idle"

\* the call of the running task returns
Returns(t) == inner' = IF t = "exec" THEN "none" ELSE inner

\* ScheduleTask, lines 44-47
GuardedScheduleTask(t) ==
    /\ queue_mutex_ = t
    /\ InCall(t, "queue")
    /\ ScheduleTaskLocked
    /\ queue_mutex_' = Free
    /\ Returns(t)
    /\ UNCHANGED <<delayed_tasks_mutex_, threadVars>>

\* ScheduleDelayedTask, lines 51-56
GuardedScheduleDelayedTask(t, delay_ms) ==
    /\ delayed_tasks_mutex_ = t
    /\ InCall(t, "timers")
    /\ ScheduleDelayedTaskLocked(delay_ms)
    /\ delayed_tasks_mutex_' = Free
    /\ Returns(t)
    /\ UNCHANGED <<queue_mutex_, threadVars>>

\* CancelDelayedTask, lines 60-62
GuardedCancelDelayedTask(t, task_id) ==
    /\ delayed_tasks_mutex_ = t
    /\ InCall(t, "timers")
    /\ CancelDelayedTaskLocked(task_id)
    /\ delayed_tasks_mutex_' = Free
    /\ Returns(t)
    /\ UNCHANGED <<queue_mutex_, threadVars>>

\* Stop, lines 31-35
GuardedStopSignal(c) ==
    /\ queue_mutex_ = c
    /\ StopSignalLocked(c)
    /\ queue_mutex_' = Free
    /\ UNCHANGED <<delayed_tasks_mutex_, inner, threadVars>>

\* ProcessDelayedTasks, lines 114-126
GuardedScan ==
    /\ delayed_tasks_mutex_ = "exec"
    /\ ProcessDelayedTasksScanLocked
    /\ delayed_tasks_mutex_' = ScanRelease
    /\ UNCHANGED <<queue_mutex_, inner, threadVars>>

\* ProcessDelayedTasks, line 130: the body of the ScheduleTask it calls
GuardedPromotion ==
    /\ queue_mutex_ = "exec"
    /\ ProcessDelayedTasksPushLocked
    /\ queue_mutex_' = Free
    /\ UNCHANGED <<delayed_tasks_mutex_, inner, threadVars>>

\* Run, lines 78-96, entered with the queue not yet looked at
GuardedPop ==
    /\ queue_mutex_ = "exec"
    /\ RunLockLocked
    /\ queue_mutex_' = PopRelease(pc')
    /\ UNCHANGED <<delayed_tasks_mutex_, inner, threadVars>>

\* Run, lines 81-96, after wait_for has locked again
GuardedWake ==
    /\ queue_mutex_ = "exec"
    /\ RunWakeLocked
    /\ queue_mutex_' = PopRelease(pc')
    /\ UNCHANGED <<delayed_tasks_mutex_, inner, threadVars>>

\* lines 98-106: the task returns or throws, outside every call it made
GuardedRunTask(threw) ==
    /\ inner = "none"
    /\ queue_mutex_ # "exec"
    /\ delayed_tasks_mutex_ # "exec"
    /\ RunTask(threw)

\* Stop, line 27, by a client that is in no other call
GuardedStopCheck(c) ==
    /\ queue_mutex_ # c
    /\ delayed_tasks_mutex_ # c
    /\ StopCheck(c)

GuardedNext ==
    \/ \E t \in Callers : LockQueue(t)
    \/ \E t \in Callers : LockTimers(t)
    \/ \E t \in Callers : GuardedScheduleTask(t)
    \/ \E t \in Callers : \E d \in 0..MaxDelay :
          GuardedScheduleDelayedTask(t, d)
    \/ \E t \in Callers : \E i \in 0..(MaxTasks + 1) :
          GuardedCancelDelayedTask(t, i)
    \/ GuardedScan
    \/ GuardedPromotion
    \/ GuardedPop
    \/ GuardedWake
    \/ \E threw \in BOOLEAN : GuardedRunTask(threw)
    \/ RunWhile
    \/ Tick
    \/ Start
    \/ GuardedStopCheck("c1")
    \/ GuardedStopSignal("c1")
    \/ StopJoinable("c1")
    \/ StopJoin("c1")
    \/ StopReturn("c1")

GuardedSpec == Init /\ [][GuardedNext]_vars

(***************************************************************************)
(* The Runtime (src/src/runtime.cpp, src/src/main.cpp): the main thread    *)
(* constructs the Runtime, whose constructor starts the Event Loop, and     *)
(* runs the top-level script inside ExecuteString; timer callbacks run on  *)
(* the execution thread.  Script code of either kind can call require,     *)
(* setTimeout and clearTimeout.                                            *)
(***************************************************************************)
ScriptThreads == {"main", "exec"}

\* thread t is executing script code: the top-level script (runtime.cpp:349,
\* script->Run on the caller of ExecuteString) or a setTimeout callback
\* (runtime.cpp:51, callback->Call inside the task Run invokes)
RunsScript(t) ==
    IF t = "main" THEN mainpc = "script"
    ELSE pc = "run" /\ task.id > 0

\* main.cpp:83 -> Runtime::ExecuteFile -> ExecuteString, up to script->Run;
\* the constructor (runtime.cpp:197-198) has started the loop before
ExecuteStringBegin ==
    /\ ~aborted
    /\ mainpc = "ready"
    /\ running_
    /\ mainpc' = "script"
    /\ UNCHANGED <<requiring, loopVars, modVars, auxVars, lockVars>>

\* runtime.cpp:349-362: the top-level script has run to its end
ExecuteStringEnd ==
    /\ ~aborted
    /\ mainpc = "script"
    /\ "main" \notin requiring
    /\ mainpc' = "done"
    /\ UNCHANGED <<requiring, loopVars, modVars, auxVars, lockVars>>

\* the native require (module.cpp:207-228) calls ModuleSystem::Require on
\* the thread that runs the calling script
RequireEnter(t) ==
    /\ ~aborted
    /\ RunsScript(t)
    /\ t \notin requiring
    /\ requiring' = requiring \cup {t}
    /\ UNCHANGED <<mainpc, loopVars, modVars, auxVars, lockVars>>

\* ModuleSystem::Require returns (module.cpp:154, 160, 167, 177, 185)
RequireLeave(t) ==
    /\ ~aborted
    /\ t \in requiring
    /\ requiring' = requiring \ {t}
    /\ UNCHANGED <<mainpc, loopVars, modVars, auxVars, lockVars>>

\* Runtime::ScheduleDelayedTask (runtime.cpp:413-418): what it returns when
\* the Runtime has no Event Loop
NoEventLoopId == 0

\* SetTimeout (runtime.cpp:15-68) called by script code
SetTimeout(t, n) ==
    /\ RunsScript(t)
    \* lines 36 and 39: new v8::Global for the callback and the context
    /\ handles' = handles \cup {nextTok}
    /\ StoreDelayedTask(ToUint64(IntegerValue(n)))
    /\ UNCHANGED <<lockVars, threadVars>>

\* ClearTimeout (runtime.cpp:71-92) called by script code
ClearTimeout(t, task_id) == RunsScript(t) /\ CancelDelayedTask(task_id)

\* the invoked callback ends, outside every call it made
CallbackEnds(threw) == "exec" \notin requiring /\ RunTask(threw)

RuntimeNext ==
    \/ Start
    \/ ExecuteStringBegin
    \/ ExecuteStringEnd
    \/ \E t \in ScriptThreads : RequireEnter(t)
    \/ \E t \in ScriptThreads : RequireLeave(t)
    \/ \E t \in ScriptThreads : \E d \in 0..MaxDelay : SetTimeout(t, d)
    \/ \E t \in ScriptThreads : \E i \in 0..(MaxTasks + 1) :
          ClearTimeout(t, i)
    \/ RunWhile
    \/ ProcessDelayedTasksScan
    \/ ProcessDelayedTasksPush
    \/ RunLock
    \/ RunWake
    \/ \E threw \in BOOLEAN : CallbackEnds(threw)
    \/ Tick

RuntimeSpec == Init /\ [][RuntimeNext]_vars

\* the numbers a script passes to setTimeout as its delay
ScriptNumbers == (Int64Min - 1)..MaxDelay

\* the Runtime with scripts that call setTimeout with any number
TimeoutNext ==
    \/ Start
    \/ ExecuteStringBegin
    \/ ExecuteStringEnd
    \/ \E t \in ScriptThreads : \E n \in ScriptNumbers : SetTimeout(t, n)
    \/ RunWhile
    \/ ProcessDelayedTasksScan
    \/ ProcessDelayedTasksPush
    \/ RunLock
    \/ RunWake
    \/ \E threw \in BOOLEAN : RunTask(threw)
    \/ Tick

TimeoutSpec == Init /\ [][TimeoutNext]_vars

\* the Event Loop has not been destroyed
Alive == \A c \in Clients : cpc[c] # "destroyed"

\* the Event Loop with tasks that call Stop(), and one controlling thread
\* that starts, stops and destroys it
SelfStopNext ==
    \/ ControllerStart("c1")
    \/ Alive /\ ScheduleTask
    \/ Alive /\ \E d \in 0..MaxDelay : ScheduleDelayedTask(d)
    \/ Run
    \/ Tick
    \/ TaskStopCheck
    \/ TaskStopSignal
    \/ TaskStopJoin
    \/ \E caught \in BOOLEAN : TaskStopThrows(caught)
    \/ StopCheck("c1")
    \/ StopProceeds("c1")
    \/ Destroy("c1")

SelfStopSpec == Init /\ [][SelfStopNext]_vars

\* the values of the uint64_t parameter delay_ms
Uint64Values == 0..(2^WordBits - 1)

\* the Event Loop with callers that pass any delay to ScheduleDelayedTask
LargeDelayNext ==
    \/ Start
    \/ \E d \in Uint64Values : ScheduleDelayedTask(d)
    \/ RunWhile
    \/ ProcessDelayedTasksScan
    \/ ProcessDelayedTasksPush
    \/ RunLock
    \/ RunWake
    \/ \E threw \in BOOLEAN : RunTask(threw)
    \/ Tick

LargeDelaySpec == Init /\ [][LargeDelayNext]_vars

\* the Event Loop with several threads that call Start() concurrently
ConcurrentStartNext ==
    \/ Operate
    \/ \E c \in Clients : StartCheck(c) \/ StartSet(c) \/ StartSpawn(c)

ConcurrentStartSpec == Init /\ [][ConcurrentStartNext]_vars

\* the Event Loop with several threads that call Stop() concurrently
ConcurrentStopNext == LoopStep \/ \E c \in Clients : Stop(c)

ConcurrentStopSpec == Init /\ [][ConcurrentStopNext]_vars

ModuleNext ==
    \/ \E id \in ModuleIds : Require(id)
    \/ LoadReturns
    \/ \E id \in ModuleIds : \E x \in NativeObjects : RegisterNativeModule(id, x)
    \/ \E f \in FileNames : \E k \in FileKinds : WriteFile(f, k)

ModuleSpec == Init /\ [][ModuleNext]_vars

\* the Module System with module bodies of both export styles and no
\* native modules
ExportsNext ==
    \/ \E id \in ModuleIds : Require(id)
    \/ LoadReturns
    \/ \E f \in FileNames : \E k \in SourceKinds : WriteFile(f, k)

ExportsSpec == Init /\ [][ExportsNext]_vars

\* the Module System required with identifiers that spell paths; the
\* working directory holds the source file the aliases denote
PathNext ==
    \/ \E id \in PathIds : Require(id)
    \/ LoadReturns
    \/ \E f \in {FileOf(ResolveModuleId(id)) : id \in AliasIds} :
          \E k \in FileKinds : WriteFile(f, k)

PathSpec == Init /\ [][PathNext]_vars

(***************************************************************************)
(* Properties of the Event Loop                                            *)
(***************************************************************************)
Immediate(cb) == cb.id = 0

Delayed(cb) == cb.id > 0

\* how often callback tok occurs in sequence s
Count(s, tok) == Cardinality({i \in DOMAIN s : s[i].tok = tok})

\* C1: the callbacks handed to ScheduleTask are invoked in the order in
\* which they were enqueued (tokens are issued in enqueue order): no task
\* overtakes an earlier-enqueued one.
C1_FifoExecution ==
    \A i \in DOMAIN executed : \A j \in DOMAIN executed :
        (i < j /\ Immediate(executed[i]) /\ Immediate(executed[j]))
            => executed[i].tok < executed[j].tok

\* two ScheduleTask callbacks have both been invoked
C1_Witness ==
    \E i \in DOMAIN executed : \E j \in DOMAIN executed :
        i < j /\ Immediate(executed[i]) /\ Immediate(executed[j])

\* C2: of two delayed tasks that are due in the same polling pass, the one
\* with the earlier due time is appended to the Task Queue first, whatever
\* their ids are.
C2_TimerDueOrder ==
    \A i \in DOMAIN tasks_to_run : \A j \in DOMAIN tasks_to_run :
        i < j => tasks_to_run[i].due <= tasks_to_run[j].due

\* C3: no callback that was in the Task Queue or in the Timer Store when
\* Stop() cleared the running flag begins execution (before a later Start).
C3_StopDrainsNothing == stopSnap \cap Toks(executed) = {}

\* C4: whenever a call to Stop() returns, the execution thread has left its
\* loop (it has finished, or was joined).
C4_StopSynchronous ==
    [][\A c \in Clients :
          (cpc[c] # "stop_done" /\ cpc'[c] = "stop_done")
              => pc' \in {"off", "exited"}]_vars

\* C8: a callback that throws is caught where it is invoked: the execution
\* thread goes back to the head of its loop exactly as after a normal return,
\* the loop stays running, and the Task Queue and the Timer Store keep all
\* their entries.
C8_FailureContained ==
    [][(raised' # raised)
          => /\ pc' = "while"
             /\ ~aborted'
             /\ UNCHANGED <<running_, task_queue_, delayed_tasks_,
                            tasks_to_run, next_task_id_, executed>>]_vars

\* a callback threw and a callback queued behind it was invoked afterwards
C8_Witness ==
    \E i \in DOMAIN executed :
        /\ executed[i].tok \in raised
        /\ i < Len(executed)
        /\ running_

\* where delayed task id currently is
InStore(id) == id \in DOMAIN delayed_tasks_

Promoted(id) ==
    \/ \E i \in DOMAIN tasks_to_run : tasks_to_run[i].id = id
    \/ \E i \in DOMAIN task_queue_ : task_queue_[i].id = id
    \/ \E i \in DOMAIN executed : executed[i].id = id

\* all places a callback can be in
Occurrences(tok) ==
    Cardinality({k \in DOMAIN delayed_tasks_ : delayed_tasks_[k].work.tok = tok})
        + Count(tasks_to_run, tok) + Count(task_queue_, tok)
        + Count(executed, tok)

\* C9: a delayed task is invoked at most once: once a pass has promoted it
\* it is not in the Timer Store, it is never promoted again, and a
\* CancelDelayedTask on its id afterwards changes nothing.
C9_AtMostOncePromotion ==
    /\ [](\A tok \in 1..(nextTok - 1) : Occurrences(tok) <= 1)
    /\ [](\A id \in 1..(next_task_id_ - 1) : Promoted(id) => ~InStore(id))
    /\ [][\A id \in 1..(next_task_id_ - 1) :
            (Promoted(id) /\ CancelDelayedTask(id)) => UNCHANGED vars]_vars

\* a delayed task was promoted and invoked, and a later pass has scanned the
\* Timer Store again
C9_Witness ==
    /\ \E i \in DOMAIN executed : Delayed(executed[i])
    /\ pc = "lock"
    /\ executed # <<>> /\ task = NoTask

\* delayed task id was issued and then cancelled while it was pending
Cancelled(id) ==
    /\ id \in 1..(next_task_id_ - 1)
    /\ ~InStore(id)
    /\ ~Promoted(id)

\* C10: CancelDelayedTask(id) removes the entry of id, if there is one, and
\* nothing else: every other pending timer keeps its id, due time and work,
\* and the Task Queue, the id counter and the run state are unchanged; for
\* an id that is not pending it changes nothing at all.
C10_CancelFrame ==
    [][\A id \in 0..(MaxTasks + 1) :
          CancelDelayedTask(id)
              => /\ DOMAIN delayed_tasks_' = (DOMAIN delayed_tasks_) \ {id}
                 /\ \A k \in DOMAIN delayed_tasks_' :
                        delayed_tasks_'[k] = delayed_tasks_[k]
                 /\ (~InStore(id) => delayed_tasks_' = delayed_tasks_)
                 /\ ~aborted'
                 /\ UNCHANGED <<task_queue_, tasks_to_run, next_task_id_,
                                running_, pc, cpc>>]_vars

\* one timer was cancelled while another one is still pending
C10_Witness ==
    \E id \in 1..(next_task_id_ - 1) :
        /\ Cancelled(id)
        /\ \E other \in DOMAIN delayed_tasks_ : other > id

\* C12: whatever threads call Start() and however the calls interleave, the
\* Event Loop never has more than one execution thread.
C12_StartIdempotent == ExecutionThreads <= 1

\* C13: every ScheduleDelayedTask call returns an id greater than the id of
\* every call completed before it, so no id is returned twice, fired and
\* cancelled timers included, whichever threads make the calls.
C13_TimerIdsIncrease ==
    \A i \in DOMAIN issued : \A j \in DOMAIN issued :
        i < j => issued[i] < issued[j]

\* a timer has fired or was cancelled, and the timer of a later call is
\* pending
C13_Witness ==
    /\ Len(issued) >= 2
    /\ \E i \in DOMAIN issued : \E j \in DOMAIN issued :
          /\ i < j
          /\ ~InStore(issued[i])
          /\ InStore(issued[j])

\* callback tok sits in the Task Queue, handed to ScheduleTask
QueuedImmediate(tok) ==
    \E i \in DOMAIN task_queue_ :
        task_queue_[i].tok = tok /\ Immediate(task_queue_[i])

\* callback tok sits in the Timer Store
PendingTimer(tok) ==
    \E k \in DOMAIN delayed_tasks_ : delayed_tasks_[k].work.tok = tok

\* C14: with the loop started and not stopped, a task A handed to
\* ScheduleTask and a timer B handed to ScheduleDelayedTask after it are
\* both invoked eventually, and A is invoked before B: when B is invoked, no
\* ScheduleTask callback scheduled before B is still queued or invoked
\* later, however long B was due before the first polling pass.
C14_ImmediateBeforeDelayed ==
    /\ [](\A i \in DOMAIN executed :
            Delayed(executed[i])
                => /\ \A k \in DOMAIN task_queue_ :
                         Immediate(task_queue_[k])
                             => task_queue_[k].tok > executed[i].tok
                   /\ \A j \in DOMAIN executed :
                         (j > i /\ Immediate(executed[j]))
                             => executed[j].tok > executed[i].tok)
    /\ \A a \in 1..MaxTasks : \A b \in 1..MaxTasks :
          (a < b /\ QueuedImmediate(a) /\ PendingTimer(b))
              ~> ({a, b} \subseteq Toks(executed))

\* A was handed to ScheduleTask, B to ScheduleDelayedTask with a positive
\* delay after it, and both have been invoked, A first
C14_Witness ==
    /\ Len(executed) >= 2
    /\ Immediate(executed[1])
    /\ Delayed(executed[2])
    /\ executed[1].tok < executed[2].tok
    /\ executed[2].due > 0

\* C15: a callback that was still in the Task Queue or in the Timer Store
\* when a Stop() returned is never invoked afterwards, a later Start() of
\* the same Event Loop included.
C15_StopDiscards == stopLeft \cap Toks(executed) = {}

\* C17: the execution thread invokes one task at a time and runs it to its
\* end: while a task is being invoked nothing else is popped, nothing is
\* promoted from the Timer Store, and the Task Queue only grows at its
\* back; a pop takes exactly one task and starts its invocation; after the
\* invocation the thread is back at the head of its loop, so one pass pops
\* at most one task.
C17_RunToCompletion ==
    /\ [](pc = "run" <=> task # NoTask)
    /\ [](pc = "run" => tasks_to_run = <<>>)
    /\ [][(pc = "run"
              => /\ UNCHANGED <<executed, tasks_to_run>>
                 /\ Len(task_queue_') >= Len(task_queue_)
                 /\ SubSeq(task_queue_', 1, Len(task_queue_)) = task_queue_
                 /\ DOMAIN delayed_tasks_' \subseteq
                        (DOMAIN delayed_tasks_) \cup {next_task_id_}
                 /\ pc' \in {"run", "while"}
                 /\ (pc' = "run" => task' = task))
           /\ (executed' # executed
                 => /\ pc \in {"lock", "wait"}
                    /\ pc' = "run"
                    /\ executed' = Append(executed, task')
                    /\ task_queue_ = <<task'>> \o task_queue_')]_vars

\* a task is being invoked while a timer in the Timer Store, scheduled
\* with a positive delay, has fallen due
C17_Witness ==
    /\ pc = "run"
    /\ running_
    /\ \E k \in DOMAIN delayed_tasks_ :
          /\ delayed_tasks_[k].due <= now
          /\ delayed_tasks_[k].due > 0

\* what thread t holds
Holds(t) ==
    (IF queue_mutex_ = t THEN {"queue"} ELSE {})
        \cup (IF delayed_tasks_mutex_ = t THEN {"timers"} ELSE {})

\* C18: while it invokes a task the execution thread holds the Task Queue
\* guard or the Timer Store guard only inside a call the task itself makes,
\* never on behalf of its loop, so the guards are free for every caller; a
\* ScheduleTask made by the running task returns while the task is still
\* being invoked and puts the new callback behind everything queued, for a
\* later pass.
C18_ReentrantScheduling ==
    /\ [](pc = "run"
            => Holds("exec") = (IF inner = "none" THEN {} ELSE {inner}))
    /\ [][(inner = "queue" /\ inner' = "none")
            => /\ pc' = "run"
               /\ task' = task
               /\ executed' = executed
               /\ Len(task_queue_') = Len(task_queue_) + 1
               /\ SubSeq(task_queue_', 1, Len(task_queue_)) = task_queue_
               /\ Holds("exec")' = {}]_vars

\* the task being invoked is inside its own ScheduleTask call, with the
\* Task Queue guard locked, while a client is inside a timer call
C18_Witness ==
    /\ pc = "run"
    /\ inner = "queue"
    /\ queue_mutex_ = "exec"
    /\ delayed_tasks_mutex_ \in Clients

\* C19: no thread ever holds the Task Queue guard and the Timer Store
\* guard at the same time, and the execution thread has given the Timer
\* Store guard back when it goes on to enqueue what it collected and to
\* pop, so no thread waits for one guard while it holds the other.
C19_GuardsNeverNested ==
    /\ \A t \in Callers : Cardinality(Holds(t)) <= 1
    /\ delayed_tasks_mutex_ = "exec" => pc \in {"pdt", "run"}
    /\ \A c \in Clients :
          Holds(c) # {} => cpc[c] \in {"idle", "stop_lock"}

\* the execution thread has the Task Queue guard for a promotion, while a
\* client holds the Timer Store guard
C19_Witness ==
    /\ pc = "push"
    /\ queue_mutex_ = "exec"
    /\ delayed_tasks_mutex_ \in Clients

\* the callbacks that left the Timer Store or the Task Queue towards the
\* execution thread
Taken == Toks(tasks_to_run) \cup Toks(task_queue_) \cup Toks(executed)

\* C11: the work of a timer that CancelDelayedTask erased from the Timer
\* Store (the call completed while the timer was still pending) is never
\* promoted and never invoked, in every interleaving of the caller with the
\* execution thread.
C11_EffectiveCancellation == {cb.tok : cb \in cancelled} \cap Taken = {}

\* a timer was cancelled while pending, and a timer issued after it that is
\* due no earlier has since been promoted and invoked
C11_Witness ==
    \E cb \in cancelled : \E i \in DOMAIN executed :
        /\ executed[i].id > cb.id
        /\ executed[i].due >= cb.due

\* C20: the ModuleSystem::Require calls of the top-level script and of the
\* timer callbacks all run on one thread, so at most one Require call is in
\* progress at any time.
C20_RequireSerialized == Cardinality(requiring) <= 1

\* C21: a setTimeout call with a zero or negative delay returns an id
\* without error and stores a timer whose due time is not after now, and a
\* polling pass leaves no timer in the Timer Store that is due: the timer
\* is promoted in the first pass after the call.
C21_NonPositiveDelayDueAtOnce ==
    [][/\ \A t \in ScriptThreads : \A n \in ScriptNumbers :
             (n <= 0 /\ SetTimeout(t, n))
                 => /\ ~aborted'
                    /\ issued' = Append(issued, next_task_id_)
                    /\ next_task_id_ \in DOMAIN delayed_tasks_'
                    /\ delayed_tasks_'[next_task_id_].due <= now
       /\ ProcessDelayedTasksScan
             => \A k \in DOMAIN delayed_tasks_' :
                    delayed_tasks_'[k].due > now]_vars

\* C27: the run state changes only from Stopped to Running in Start() and
\* from Running to Stopped in Stop(); a Stop() called while Stopped returns
\* at once and changes nothing; IsRunning() is true when Start() returns
\* and stays true until a Stop() clears it, and is false when a Stop()
\* returns.
C27_TwoStateMachine ==
    /\ [][(IsRunning' # IsRunning)
            => \/ ~IsRunning /\ Start
               \/ IsRunning /\ \E c \in Clients : StopSignal(c)]_vars
    /\ [][Start => IsRunning']_vars
    /\ [][\A c \in Clients :
             (~IsRunning /\ StopCheck(c))
                 => /\ cpc'[c] = "stop_done"
                    /\ UNCHANGED <<running_, task_queue_, delayed_tasks_,
                                   next_task_id_, pc, tasks_to_run, task,
                                   aborted>>]_vars
    /\ [][\A c \in Clients :
             (cpc[c] # "stop_done" /\ cpc'[c] = "stop_done")
                 => ~IsRunning']_vars
    /\ [][\A c \in Clients :
             (cpc[c] = "stop_done" /\ cpc'[c] # "stop_done")
                 => /\ cpc'[c] = "idle"
                    /\ UNCHANGED <<running_, task_queue_, delayed_tasks_,
                                   next_task_id_, pc, tasks_to_run, task,
                                   aborted>>]_vars

\* the loop was started and ran a task, a Stop() has returned with the
\* execution thread joined, and work is still queued
C27_Witness ==
    /\ cpc["c1"] = "stop_done"
    /\ ~IsRunning
    /\ pc = "off"
    /\ executed # <<>>
    /\ task_queue_ # <<>>

\* the callbacks that have left the Timer Store, in the order in which
\* they reach the Task Queue
PromotionOrder == executed \o task_queue_ \o tasks_to_run

\* C28: a polling pass that promotes a timer promotes every timer in the
\* Timer Store that is due earlier, so a timer due earlier is never
\* promoted in a later pass than one due later that was pending with it;
\* and timers with equal due time reach the Task Queue in ascending id
\* order.
C28_PromotionOrder ==
    /\ [][ProcessDelayedTasksScan
            => \A a \in DOMAIN delayed_tasks_ :
                 \A b \in (DOMAIN delayed_tasks_) \ (DOMAIN delayed_tasks_') :
                     delayed_tasks_[a].due < delayed_tasks_[b].due
                         => /\ a \notin DOMAIN delayed_tasks_'
                            /\ \E i \in DOMAIN tasks_to_run' :
                                  tasks_to_run'[i].id = a]_vars
    /\ [](\A i \in DOMAIN PromotionOrder : \A j \in DOMAIN PromotionOrder :
            (/\ i < j
             /\ Delayed(PromotionOrder[i])
             /\ Delayed(PromotionOrder[j])
             /\ PromotionOrder[i].due = PromotionOrder[j].due)
                => PromotionOrder[i].id < PromotionOrder[j].id)

\* one pass has collected two timers that were scheduled at different
\* times and are due at the same, later, instant
C28_Witness ==
    /\ Len(tasks_to_run) = 2
    /\ tasks_to_run[1].due = tasks_to_run[2].due
    /\ tasks_to_run[1].due > 0
    /\ tasks_to_run[1].id < tasks_to_run[2].id

\* C29: with the loop started and not stopped and every invoked task
\* returning, every timer in the Timer Store that is not cancelled is
\* promoted and invoked eventually, also when nothing is ever handed to
\* ScheduleTask and the execution thread idles: its wait ends by itself and
\* the next pass scans the Timer Store again.
C29_TimerLiveness ==
    \A tok \in 1..MaxTasks : PendingTimer(tok) ~> (tok \in Toks(executed))

\* nothing was ever handed to ScheduleTask; one timer has been promoted
\* and invoked, and the execution thread idles with an empty Task Queue
\* while another timer is pending and not yet due
C29_Witness ==
    /\ running_
    /\ pc = "wait"
    /\ task_queue_ = <<>>
    /\ Len(executed) = 1
    /\ Delayed(executed[1])
    /\ \E k \in DOMAIN delayed_tasks_ : delayed_tasks_[k].due > now

\* C30: with the loop started and not stopped and every invoked task
\* returning, every callback that ScheduleTask appended to the Task Queue
\* is invoked eventually, wherever the execution thread was when it was
\* appended: scanning timers, idle-waiting, or invoking a task.
C30_TaskLiveness ==
    \A tok \in 1..MaxTasks :
        QueuedImmediate(tok) ~> (tok \in Toks(executed))

\* a task has been invoked, the execution thread went idle with an empty
\* Task Queue, and ScheduleTask has appended a task while it waits
C30_Witness ==
    /\ running_
    /\ pc = "wait"
    /\ executed # <<>>
    /\ task = NoTask
    /\ task_queue_ # <<>>
    /\ Immediate(task_queue_[1])

\* how often the work of delayed task id was invoked
Invocations(id) == Cardinality({i \in DOMAIN executed : executed[i].id = id})

\* C32: a CancelDelayedTask on the id of a delayed task that a promotion
\* pass has removed from the Timer Store, made before the task is appended
\* to the Task Queue or before it is popped, changes nothing: the task
\* stays where it is, and while the loop stays Running it is invoked, once.
C32_PromotedRuns ==
    /\ [][\A id \in 1..MaxTasks :
             (InFlight(id) /\ CancelDelayedTaskObserved(id))
                 => UNCHANGED <<tasks_to_run, task_queue_, delayed_tasks_,
                                executed, task, pc, running_>>]_vars
    /\ [](\A id \in lateCancels : Invocations(id) <= 1 /\ ~InStore(id))
    /\ \A id \in 1..MaxTasks :
          (id \in lateCancels) ~> (Invocations(id) = 1)

\* two timers were each the target of a CancelDelayedTask between their
\* promotion and their pop, and both were invoked
C32_Witness ==
    /\ Cardinality(lateCancels) = 2
    /\ \A id \in lateCancels : Invocations(id) = 1

\* C37: every callback handed to ScheduleTask or ScheduleDelayedTask is
\* invoked at most once; an invocation begins only on the execution thread
\* and only while the loop is Running; and while the loop is Stopped, with
\* no execution thread, whatever is scheduled stays in the Task Queue or
\* the Timer Store, uninvoked, until a Start().
C37_ExactlyOnceWhileRunning ==
    /\ [](\A tok \in 1..MaxTasks : Occurrences(tok) <= 1)
    /\ [][executed' # executed
            => /\ IsRunning
               /\ pc \in {"lock", "wait"}
               /\ pc' = "run"]_vars
    /\ [][(~IsRunning /\ pc = "off" /\ ~Start)
            => /\ executed' = executed
               /\ Toks(task_queue_) \subseteq Toks(task_queue_')
               /\ tasks_to_run' = tasks_to_run
               /\ \A k \in DOMAIN delayed_tasks_ :
                      \/ k \in DOMAIN delayed_tasks_'
                      \/ delayed_tasks_[k].work \in cancelled']_vars

\* C39: the first id an Event Loop issues is 1 and no id it issues is the
\* value Runtime::ScheduleDelayedTask returns without an Event Loop (0): no
\* timer is ever stored under that value, and a CancelDelayedTask of it
\* erases nothing.
C39_ZeroIsNoTimer ==
    /\ [](issued # <<>> => issued[1] = 1)
    /\ [](\A i \in DOMAIN issued : issued[i] # NoEventLoopId)
    /\ [](NoEventLoopId \notin DOMAIN delayed_tasks_)
    /\ [](\A cb \in cancelled : cb.id # NoEventLoopId)
    /\ [][CancelDelayedTask(NoEventLoopId)
            => UNCHANGED <<delayed_tasks_, cancelled, task_queue_>>]_vars

\* two timers were issued, the first one with id 1; one was cancelled by
\* its id and the other one is still pending
C39_Witness ==
    /\ Len(issued) = 2
    /\ issued[1] = 1
    /\ Cardinality(cancelled) = 1
    /\ Cardinality(DOMAIN delayed_tasks_) = 1

\* C36: a Stop() called by the task being invoked does not raise and does
\* not block; once it has cleared the running flag the execution thread
\* pops nothing more and leaves its loop; every Stop() that returns
\* afterwards returns with the execution thread joined, and a destruction
\* of the Event Loop completes without terminating the program.
C36_SelfStopClean ==
    /\ [](pc # "task_stop_threw")
    /\ [][(~running_ /\ pc \in {"run", "task_stop_join", "while"})
            => executed' = executed]_vars
    /\ [][\A c \in Clients :
             (cpc[c] # "stop_done" /\ cpc'[c] = "stop_done")
                 => pc' = "off"]_vars
    /\ [](\A c \in Clients : cpc[c] = "destroyed" => ~aborted /\ pc = "off")

\* C35: for every value of the uint64_t delay, ScheduleDelayedTask stores
\* the timer with the due time now + delay, a promotion pass collects only
\* timers whose due time is not after now, and only promoted timers are
\* invoked: no delayed task is promoted or invoked before the time of its
\* call plus its delay.
C35_DelaysAreMinimums ==
    /\ [][\A d \in Uint64Values :
             ScheduleDelayedTask(d)
                 => /\ next_task_id_ \in DOMAIN delayed_tasks_'
                    /\ delayed_tasks_'[next_task_id_].due = now + d]_vars
    /\ [][ProcessDelayedTasksScan
            => \A i \in DOMAIN tasks_to_run' : tasks_to_run'[i].due <= now]_vars
    /\ [](\A i \in DOMAIN executed :
            Delayed(executed[i]) => executed[i].due <= now)

\* the callbacks of the timers that are pending, promoted and not yet
\* popped, or being invoked
LiveTimers ==
    {delayed_tasks_[k].work.tok : k \in DOMAIN delayed_tasks_}
        \cup {cb.tok : cb \in {x \in Range(tasks_to_run) : Delayed(x)}}
        \cup {cb.tok : cb \in {x \in Range(task_queue_) : Delayed(x)}}
        \cup (IF Delayed(task) THEN {task.tok} ELSE {})

\* C33: the persistent callback and context handles of a setTimeout timer
\* are allocated exactly while the timer is pending, queued or firing: every
\* such timer has its handles, and no handles are allocated for a timer
\* that has fired or was cancelled with clearTimeout.
C33_HandleOwnership == handles = LiveTimers

\* a Stop() of caller c has read running_ = true and has not returned
Stopping(c) == cpc[c] \in {"stop_lock", "stop_joinable", "stop_join"}

\* C31: a Stop() called from a thread other than the execution thread
\* returns eventually, with the execution thread finished, when the task
\* being invoked returns; and an execution thread that wakes from its idle
\* wait with the running flag cleared leaves the loop at once, popping
\* nothing.
C31_StopTerminates ==
    /\ Stopping("c1") ~> (cpc["c1"] = "stop_done" /\ pc = "off")
    /\ [][(pc = "wait" /\ pc' # "wait" /\ ~running_)
            => /\ pc' = "exited"
               /\ UNCHANGED <<task_queue_, executed>>]_vars

\* Stop() waits in join() for an execution thread that idle-waits with the
\* running flag cleared, and a task has been queued behind the signal
C31_Witness ==
    /\ cpc["c1"] = "stop_join"
    /\ pc = "wait"
    /\ ~running_
    /\ task_queue_ # <<>>

(***************************************************************************)
(* Properties of the Module System                                         *)
(***************************************************************************)
\* C5: for a script module id whose first Require succeeded, the module
\* body was evaluated exactly once, and every Require of the id that returns
\* afterwards returns the exports reference the first one returned.
C5_SingleLoad ==
    \A id \in ModuleIds :
        (id \notin DOMAIN native_modules_ /\ firstVal[id].kind = "exports")
            => /\ evalCount[id] = 1
               /\ (ret.id = id => ret.val = firstVal[id])

\* C6: a Require(id) that failed to load (it returned the empty exports
\* value) leaves the module cache without an entry for id.
C6_FailedLoadNotCached ==
    (ret # NoRet /\ ret.val = EmptyObject) => ret.id \notin DOMAIN modules_

\* C7: a Require(id) made while id is in the native registry returns the
\* registered object and touches neither the script cache nor the loader,
\* whatever the source file of id holds and whatever the cache holds for id.
C7_NativePrecedence ==
    [][\A id \in ModuleIds :
          (id \in DOMAIN native_modules_ /\ Require(id))
              => /\ ret' = Returned(id, native_modules_[id])
                 /\ UNCHANGED <<modules_, native_modules_, stack, nextObj,
                                evalCount>>]_vars

\* C16: a Require(id) of a registered native id resolves no file name,
\* opens no file, evaluates nothing and leaves the script cache and the
\* registry as they are; called again with no registration in between, it
\* returns the very object the call before returned.
C16_NativeBypassesLoader ==
    [][\A id \in ModuleIds :
          (id \in DOMAIN native_modules_ /\ Require(id))
              => /\ UNCHANGED <<opened, evalCount, stack, nextObj, files,
                                modules_, native_modules_>>
                 /\ ret'.id = id
                 /\ ret'.val \in NativeObjects
                 /\ (ret.id = id /\ ret.val \in NativeObjects)
                        => ret'.val = ret.val]_vars

\* Require has just returned a native object for an id that has a loadable
\* source file and no cache entry, and the loader has opened no file so far
C16_Witness ==
    /\ ret # NoRet
    /\ ret.val \in NativeObjects
    /\ ret.id \notin DOMAIN modules_
    /\ files[ResolveModuleId(ret.id)] = "ok"
    /\ opened = {}

\* Require has just returned the native object of an id whose script module
\* had been cached before the registration and whose source file is loadable
C7_Witness ==
    /\ ret # NoRet
    /\ ret.val \in NativeObjects
    /\ ret.id \in DOMAIN modules_
    /\ files[ResolveModuleId(ret.id)] = "ok"

\* a name that ends with the standard source extension
HasExtension(I) == \E stem \in AllIds \cup Names : I = stem \o ".js"

\* the resolution policy: I itself with the extension present, I with the
\* extension appended otherwise
StandardResolution(I) == IF HasExtension(I) THEN I ELSE I \o ".js"

\* C22: a Require of an identifier I that is neither native nor cached
\* opens the file named I when I ends with the standard extension, and the
\* file named I plus the extension otherwise.
C22_ResolutionAppendsOnce ==
    [][\A I \in PathIds :
          (RequirePath(I) = "load" /\ Require(I))
              => opened' = opened \cup {StandardResolution(I)}]_vars

\* C23: when a module body has run to its end, the value Require returns
\* and the value the cache holds for the module are the value of
\* module.exports at that moment: the object the body assigned to it, if it
\* assigned one, and otherwise the exports object the body was given.
C23_ModuleExportsAuthoritative ==
    [][(LoadReturns /\ stack[Len(stack)].src # "throws")
          => LET m == stack[Len(stack)]
             IN  /\ ret'.id = m.id
                 /\ (m.src = "replaces"
                       => ret'.val = ReplacementObject(m.exports.n))
                 /\ (m.src = "ok" => ret'.val = m.exports)
                 /\ m.id \in DOMAIN modules_'
                 /\ modules_'[m.id].exports = ret'.val]_vars

\* the load of a body that replaced module.exports has just returned the
\* replacement, while the cache holds the original exports object of
\* another module
C23_Witness ==
    /\ ret # NoRet
    /\ ret.val.kind = "replacement"
    /\ ret.id \in DOMAIN modules_
    /\ modules_[ret.id].exports = ret.val
    /\ \E id \in DOMAIN modules_ : modules_[id].exports.kind = "exports"

\* C24: every record in the module cache has loaded = true and holds the
\* exports of an evaluation of its own that ran to its end; no record whose
\* load is still in progress, or failed, is in the cache.
C24_CacheInvariant ==
    \A id \in DOMAIN modules_ :
        /\ modules_[id].loaded
        /\ modules_[id].exports.kind \in {"exports", "replacement"}
        /\ evalCount[id] >= 1
        /\ \A i \in DOMAIN stack :
               stack[i].exports.n # modules_[id].exports.n
        /\ \A other \in (DOMAIN modules_) \ {id} :
               modules_[other].exports.n # modules_[id].exports.n

\* a module is cached, and the load of another one, whose body threw, has
\* just returned without a cache entry
C24_Witness ==
    /\ DOMAIN modules_ # {}
    /\ ret # NoRet
    /\ ret.val = EmptyObject
    /\ evalCount[ret.id] >= 1
    /\ ret.id \notin DOMAIN modules_

\* C25: RegisterNativeModule(id, X) makes X the entry of id in the native
\* registry, whether id had an entry or not, and changes no other entry of
\* the registry and nothing in the script-module cache; a Require(id) made
\* afterwards returns the object registered last.
C25_RegisterOverwrites ==
    /\ [][\A id \in ModuleIds : \A x \in NativeObjects :
             RegisterNativeModule(id, x)
                 => /\ DOMAIN native_modules_' =
                          (DOMAIN native_modules_) \cup {id}
                    /\ native_modules_'[id] = x
                    /\ \A other \in (DOMAIN native_modules_) \ {id} :
                          native_modules_'[other] = native_modules_[other]
                    /\ modules_' = modules_]_vars
    /\ [][\A id \in ModuleIds :
             (id \in DOMAIN native_modules_ /\ Require(id))
                 => ret' = Returned(id, native_modules_[id])]_vars

\* Require(id) returned the object registered first, id was registered
\* again with another object, and Require(id) has just returned that one;
\* the other identifier has a native entry and a cached script module
C25_Witness ==
    /\ ret # NoRet
    /\ ret.val \in NativeObjects
    /\ firstVal[ret.id] \in NativeObjects
    /\ firstVal[ret.id] # ret.val
    /\ native_modules_[ret.id] = ret.val
    /\ \E other \in (DOMAIN native_modules_) \ {ret.id} :
          other \in DOMAIN modules_

\* C38: a Require of an identifier that is in the module cache returns the
\* exports the cache holds and changes nothing else: it resolves and opens
\* no file, evaluates nothing, creates nothing and leaves the cache as it
\* is, whatever the source file holds by now (changed, removed, no longer
\* compilable).
C38_CacheIgnoresFiles ==
    [][\A id \in ModuleIds :
          (id \in DOMAIN modules_ /\ Require(id))
              => /\ ret' = Returned(id, modules_[id].exports)
                 /\ UNCHANGED <<modules_, opened, evalCount, stack, nextObj,
                                files, native_modules_>>]_vars

\* Require has just returned the cached exports of a module that was
\* evaluated once and whose source file is gone, while the other module's
\* file no longer compiles
C38_Witness ==
    /\ ret # NoRet
    /\ stack = <<>>
    /\ ret.id \in DOMAIN modules_
    /\ ret.val = modules_[ret.id].exports
    /\ evalCount[ret.id] = 1
    /\ files[ResolveModuleId(ret.id)] = "missing"
    /\ \E other \in (DOMAIN modules_) \ {ret.id} :
          files[ResolveModuleId(other)] = "syntax"

\* C34: a module is never evaluated while an evaluation of it is in
\* progress: a Require of an identifier whose body is running (the module
\* requires itself, directly or through the modules it requires) starts no
\* further load, so the nesting of loads is bounded by the number of
\* modules and no body runs more than once.
C34_CyclicRequireLoadsOnce ==
    \A i \in DOMAIN stack : \A j \in DOMAIN stack :
        i < j => stack[i].id # stack[j].id

\* two different identifiers that denote one source file
SameFile(i, j) ==
    i # j /\ FileOf(ResolveModuleId(i)) = FileOf(ResolveModuleId(j))

\* the part of C26 that is about whose exports a Require returns: two
\* identifiers of one source file never share an exports object
IndependentExports(i, j) ==
    /\ (firstVal[i].kind = "exports" /\ firstVal[j].kind = "exports")
          => firstVal[i] # firstVal[j]
    /\ (ret.id = i /\ ret.val.kind = "exports") => ret.val # firstVal[j]
    /\ ({i, j} \subseteq DOMAIN modules_)
          => modules_[i].exports # modules_[j].exports

\* C26: two different identifiers that resolve to one source file are
\* cached as two records: for each of them whose first Require succeeded
\* the body was evaluated exactly once, each holds an exports object of its
\* own, and a Require of the one returns its own exports, never those of
\* the other.
C26_CachedByIdentifier ==
    \A i \in PathIds : \A j \in PathIds :
        SameFile(i, j)
            => /\ IndependentExports(i, j)
               /\ firstVal[i].kind = "exports" => evalCount[i] = 1

====
